---- MODULE Spec2Model ----
(***************************************************************************)
(* A model of the batch generation path of the interior designer:          *)
(* InteriorDesigner.generate_design_variations (src/interior_designer.py). *)
(* The reference images are loaded, one request per variation index is     *)
(* issued, asyncio.gather joins them, and the results are then processed   *)
(* in a sequential loop that extracts an image, writes it to a file and    *)
(* accumulates the token counts.                                           *)
(***************************************************************************)
EXTENDS Integers, Sequences, FiniteSets, TLC

VARIABLES
    num_variations,       \* argument num_variations
    current_room_paths,   \* argument current_room_paths
    inspiration_paths,    \* argument inspiration_paths
    unloadable,           \* the paths load_image fails on
    current_room_images,  \* local list of loaded room images
    inspiration_images,   \* local list of loaded inspiration images
    pc,                   \* position of generate_design_variations
    task,                 \* state of each generate_with_usage(i) task
    requests,             \* the images each issued request carries
    outcome,              \* what each resolved remote call produced
    completion,           \* the indices in the order their calls resolved
    results,              \* the list asyncio.gather returned
    pos,                  \* position of the "for result in results" loop
    generated_images,     \* local list generated_images
    total_input_tokens,   \* local total_input_tokens
    total_output_tokens,  \* local total_output_tokens
    writing,              \* the paths image.save is writing right now
    files,                \* the files written, in order
    out,                  \* the lines printed
    returned,             \* the value returned to the caller
    output_dir,           \* argument output_dir ("" before the call)
    error,                \* what raised, "none" while nothing has
    dirs,                 \* the directories that exist on disk
    run,                  \* the number of this run against the same disk
    caller,               \* the entry point: "cli" (cli.py) or "script"
    env_key,              \* GEMINI_API_KEY in the environment, "" if unset
    missing,              \* the image paths that do not exist
    args_output_dir,      \* --output-dir of the command line
    prog_pc,              \* position of the entry point
    grid_file,            \* the grid overview written, <<>> if none
    exit_status,          \* exit status of the process, -1 while it runs
    variation_index,      \* argument variation_index of the prompt builders
    prompt,               \* the prompt create_variation_prompt returned
    prompt_before,        \* the prompt of the call before, same arguments
    array,                \* the preset list handed to select
    picks,                \* what select returned for indexes 0, 1, 2, ...
    lighting,             \* what pick_lighting_for returned for them
    grid_images,          \* len(images), the argument of save_variations_grid
    pasted,               \* the cells grid_image.paste has filled, in order
    reply,                \* a response of the remote service
    single_result,        \* what generate_design_variation made of it
    batch_result          \* what the loop of the batch made of it

vars == <<num_variations, current_room_paths, inspiration_paths, unloadable,
          current_room_images, inspiration_images, pc, task, requests,
          outcome, completion, results, pos, generated_images,
          total_input_tokens, total_output_tokens, writing, files, out,
          returned, output_dir, error, dirs, run, caller, env_key, missing,
          args_output_dir, prog_pc, grid_file, exit_status,
          variation_index, prompt, prompt_before, array, picks, lighting,
          grid_images, pasted, reply, single_result, batch_result>>

\* the state of the functions checked on their own; no step of the batch or
\* of an entry point changes it
aside == <<variation_index, prompt, prompt_before, array, picks, lighting,
           grid_images, pasted, reply, single_result, batch_result>>

AsideIdle ==
    /\ variation_index = 0
    /\ prompt = <<>>
    /\ prompt_before = <<>>
    /\ array = <<>>
    /\ picks = <<>>
    /\ lighting = <<>>
    /\ grid_images = 0
    /\ pasted = <<>>
    /\ reply = <<>>
    /\ single_result = <<"none", 0>>
    /\ batch_result = <<"none", 0>>

\* what the entry point owns; no step of the batch changes it
prog == <<output_dir, run, caller, env_key, missing, args_output_dir, prog_pc,
          grid_file, exit_status>>

(***************************************************************************)
(* Bounds of the model.                                                    *)
(***************************************************************************)
MaxVariations == 3
MaxRoomPaths == 5
MaxInspirationPaths == 3
MaxBigBatch == 101

(***************************************************************************)
(* Program constants.                                                      *)
(***************************************************************************)
RoomImageCap == 3          \* current_room_images[:3]
InspirationImageCap == 2   \* inspiration_images[:2]
InputPrice == 75           \* 0.000075 $ per 1K tokens, in 1e-9 $ per token
OutputPrice == 300         \* 0.0003 $ per 1K tokens, in 1e-9 $ per token
PadWidth == 2              \* the 02d of the file name

Min(a, b) == IF a < b THEN a ELSE b

Indices(n) == 0 .. (n - 1)

Range(s) == {s[x] : x \in DOMAIN s}

\* s[:n] of Python
Take(s, n) == SubSeq(s, 1, Min(n, Len(s)))

RECURSIVE SumSeq(_)
SumSeq(s) == IF s = <<>> THEN 0 ELSE s[1] + SumSeq(Tail(s))

\* loading loops that skip nothing
SelectAll(paths, bad) == paths

RECURSIVE SelectLoadable(_, _)
\* the loading loops: a path whose load_image raises is skipped
SelectLoadable(paths, bad) ==
    IF paths = <<>> THEN <<>>
    ELSE IF paths[1] \in bad THEN SelectLoadable(Tail(paths), bad)
    ELSE <<paths[1]>> \o SelectLoadable(Tail(paths), bad)

RECURSIVE LoadWarnings(_, _)
LoadWarnings(paths, bad) ==
    IF paths = <<>> THEN <<>>
    ELSE IF paths[1] \in bad
         THEN <<[t |-> "warn_load", num |-> 0, a |-> 0, b |-> 0, path |-> <<paths[1]>>]>>
              \o LoadWarnings(Tail(paths), bad)
         ELSE LoadWarnings(Tail(paths), bad)

RoomPaths(n) == [x \in 1 .. n |-> <<"room", x>>]
InspirationPaths(n) == [x \in 1 .. n |-> <<"inspiration", x>>]

(***************************************************************************)
(* File names: f"{output_dir}/design_variation_{i + 1:02d}.png".  A name   *)
(* is the sequence of its pieces; every digit is a piece of its own.       *)
(***************************************************************************)
DigitChar(d) == <<"0", "1", "2", "3", "4", "5", "6", "7", "8", "9">>[d + 1]

RECURSIVE Digits(_)
\* the decimal digits of n >= 0, most significant first
Digits(n) == IF n < 10 THEN <<DigitChar(n)>>
             ELSE Digits(n \div 10) \o <<DigitChar(n % 10)>>

RECURSIVE PadLeft(_, _)
\* zero fill on the left up to the width; a longer number is not cut
PadLeft(s, w) == IF Len(s) >= w THEN s ELSE PadLeft(<<"0">> \o s, w)

\* a format that keeps only the last two digits
FormatLastTwoDigits(n) == PadLeft(Digits(n % 100), PadWidth)

\* the format specification 02d
Format02d(n) == PadLeft(Digits(n), PadWidth)

\* the default of the parameter output_dir
OutputDir == "output"

\* os.makedirs(output_dir, exist_ok=True)
\* os.makedirs(output_dir) without exist_ok
makedirs_plain == FALSE

makedirs_exist_ok == TRUE

\* cli.py: output_dir.mkdir(exist_ok=True)
mkdir_exist_ok == TRUE

\* whether creating directory d raises FileExistsError
MakeDirRaises(d, exist_ok) == d \in dirs /\ ~exist_ok

\* a file name built from the 0-based index
OutputPathZeroBased(i) ==
    <<output_dir, "/design_variation_">> \o Format02d(i) \o <<".png">>

OutputPath(i) ==
    <<output_dir, "/design_variation_">> \o Format02d(i + 1) \o <<".png">>

(***************************************************************************)
(* Responses of the remote endpoint.  A part carries text, inline image    *)
(* data, both or neither; usage_metadata is absent, None, or two counts.   *)
(***************************************************************************)
TextPart == [text |-> TRUE, inline |-> FALSE]
ImagePart == [text |-> FALSE, inline |-> TRUE]
\* a part with both a text and inline data, and a part with neither
BothPart == [text |-> TRUE, inline |-> TRUE]
EmptyPart == [text |-> FALSE, inline |-> FALSE]

NoUsage(m) == [meta |-> m, prompt_token_count |-> 0, candidates_token_count |-> 0]
Usage(a, b) == [meta |-> "ok", prompt_token_count |-> a, candidates_token_count |-> b]

Usages == {NoUsage("absent"), NoUsage("none"), Usage(1000, 500), Usage(1000, 1290)}

ErrorOutcome == [kind |-> "error", parts |-> <<>>, usage |-> NoUsage("absent")]

\* a response whose candidates list is empty: candidates[0] raises
Malformed(u) == [kind |-> "malformed", parts |-> <<>>, usage |-> u]
Response(ps, u) == [kind |-> "parts", parts |-> ps, usage |-> u]

\* what one remote call can produce: an error, a response without
\* candidates, a text-only response, or a response holding an image
Outcomes == {ErrorOutcome, Malformed(Usage(1000, 500)),
             Response(<<TextPart>>, Usage(1000, 500))}
            \cup {Response(<<TextPart, ImagePart>>, u) : u \in Usages}

Line(t, num, a, b, path) == [t |-> t, num |-> num, a |-> a, b |-> b, path |-> path]

\* log_usage_info: what it prints for a response and a 1-based number
log_usage_info(response, variation_num) ==
    IF response.usage.meta = "ok"
    THEN <<Line("usage", variation_num,
                response.usage.prompt_token_count * InputPrice,
                response.usage.candidates_token_count * OutputPrice, <<>>)>>
    ELSE IF response.usage.meta = "none"
    THEN <<Line("usage_error", variation_num, 0, 0, <<>>)>>
    ELSE <<>>

\* an extraction that takes the first part, whatever it holds
ExtractAnyPart(parts) == IF Len(parts) > 0 THEN 1 ELSE 0

RECURSIVE FirstInline(_, _)
\* the extraction loop: the first part whose inline_data is not None, or 0
FirstInline(parts, p) ==
    IF p > Len(parts) THEN 0
    ELSE IF parts[p].inline THEN p
    ELSE FirstInline(parts, p + 1)

RECURSIVE LastInline(_, _)
LastInline(parts, p) ==
    IF p < 1 THEN 0
    ELSE IF parts[p].inline THEN p
    ELSE LastInline(parts, p - 1)

\* the extraction loop without its break: the last image part wins
ExtractLastImage(parts) == LastInline(parts, Len(parts))

ExtractImage(parts) == FirstInline(parts, 1)

\* a request that carries every loaded image
RequestAllImages(room, inspiration) == room \o inspiration

\* the images a request carries (the prompt text is left out)
RequestImages(room, inspiration) ==
    Take(room, RoomImageCap) \o Take(inspiration, InspirationImageCap)

\* one element of the list gather returns: the exception, or (i, response)
Result(i) ==
    IF outcome[i].kind = "error"
    THEN [exc |-> TRUE, i |-> -1, response |-> outcome[i]]
    ELSE [exc |-> FALSE, i |-> i, response |-> outcome[i]]

\* the results in the order the calls resolved, as asyncio.as_completed
\* would hand them over
GatherResultsAsCompleted ==
    [x \in 1 .. num_variations |-> Result(completion[x])]

\* asyncio.gather: the results in the order of the tasks
GatherResults == [x \in 1 .. num_variations |-> Result(x - 1)]

(***************************************************************************)
(* Initial states.                                                         *)
(***************************************************************************)
InitCall(n, rooms, insps, bad) ==
    /\ num_variations = n
    /\ current_room_paths = RoomPaths(rooms)
    /\ inspiration_paths = InspirationPaths(insps)
    /\ unloadable = bad
    /\ current_room_images = <<>>
    /\ inspiration_images = <<>>
    /\ pc = "start"
    /\ task = <<>>
    /\ requests = <<>>
    /\ outcome = <<>>
    /\ completion = <<>>
    /\ results = <<>>
    /\ pos = 1
    /\ generated_images = <<>>
    /\ total_input_tokens = 0
    /\ total_output_tokens = 0
    /\ writing = {}
    /\ files = <<>>
    /\ out = <<>>
    /\ returned = <<>>
    /\ output_dir = OutputDir
    /\ error = "none"
    /\ dirs = {"."}
    /\ run = 1
    /\ caller = "script"
    /\ env_key = "key"
    /\ missing = {}
    /\ args_output_dir = ""
    /\ prog_pc = "running"
    /\ grid_file = <<>>
    /\ exit_status = -1
    /\ AsideIdle

Init ==
    \E n \in 1 .. MaxVariations :
        InitCall(n, RoomImageCap + 1, 1, {})

(***************************************************************************)
(* The steps of generate_design_variations.                                *)
(***************************************************************************)
LoadImages ==
    /\ pc = "start"
    /\ current_room_images' = SelectLoadable(current_room_paths, unloadable)
    /\ inspiration_images' = SelectLoadable(inspiration_paths, unloadable)
    /\ out' = out \o LoadWarnings(current_room_paths, unloadable)
                  \o LoadWarnings(inspiration_paths, unloadable)
    /\ pc' = "loaded"
    /\ UNCHANGED <<num_variations, current_room_paths, inspiration_paths,
                   unloadable, task, requests, outcome, completion, results,
                   pos, generated_images, total_input_tokens,
                   total_output_tokens, writing, files, returned>>
    /\ UNCHANGED <<prog, aside, error, dirs>>

\* tasks = [generate_with_usage(i) for i in range(num_variations)]; gather
CreateTasks ==
    /\ pc = "loaded"
    /\ task' = [i \in Indices(num_variations) |-> "created"]
    /\ pc' = "gather"
    /\ UNCHANGED <<num_variations, current_room_paths, inspiration_paths,
                   unloadable, current_room_images, inspiration_images,
                   requests, outcome, completion, results, pos,
                   generated_images, total_input_tokens, total_output_tokens,
                   writing, files, out, returned>>
    /\ UNCHANGED <<prog, aside, error, dirs>>

\* a request that takes its images out of the shared list:
\* "current_room_images.pop(0)" while the request is built
IssueRequestConsuming(i) ==
    /\ pc = "gather"
    /\ task[i] = "created"
    /\ \A j \in Indices(i) : task[j] # "created"
    /\ task' = [task EXCEPT ![i] = "pending"]
    /\ requests' = (i :> RequestImages(current_room_images, inspiration_images))
                   @@ requests
    /\ current_room_images' =
           IF current_room_images = <<>> THEN <<>> ELSE Tail(current_room_images)
    /\ UNCHANGED <<num_variations, current_room_paths, inspiration_paths,
                   unloadable, inspiration_images, pc,
                   outcome, completion, results, pos, generated_images,
                   total_input_tokens, total_output_tokens, writing, files,
                   out, returned>>
    /\ UNCHANGED <<prog, aside, error, dirs>>

\* requests sent one after the other, each after the answer to the one
\* before it: "for i in range(n): results.append(await generate(i))"
IssueRequestInTurn(i) ==
    /\ pc = "gather"
    /\ task[i] = "created"
    /\ \A j \in Indices(i) : task[j] = "done"
    /\ task' = [task EXCEPT ![i] = "pending"]
    /\ requests' = (i :> RequestImages(current_room_images, inspiration_images))
                   @@ requests
    /\ UNCHANGED <<num_variations, current_room_paths, inspiration_paths,
                   unloadable, current_room_images, inspiration_images, pc,
                   outcome, completion, results, pos, generated_images,
                   total_input_tokens, total_output_tokens, writing, files,
                   out, returned>>
    /\ UNCHANGED <<prog, aside, error, dirs>>

\* generate_with_usage(i) up to its await: the request is built and sent.
\* The event loop starts the tasks in the order gather scheduled them.
IssueRequest(i) ==
    /\ pc = "gather"
    /\ task[i] = "created"
    /\ \A j \in Indices(i) : task[j] # "created"
    /\ task' = [task EXCEPT ![i] = "pending"]
    /\ requests' = (i :> RequestImages(current_room_images, inspiration_images))
                   @@ requests
    /\ UNCHANGED <<num_variations, current_room_paths, inspiration_paths,
                   unloadable, current_room_images, inspiration_images, pc,
                   outcome, completion, results, pos, generated_images,
                   total_input_tokens, total_output_tokens, writing, files,
                   out, returned>>
    /\ UNCHANGED <<prog, aside, error, dirs>>

\* a remote call that is made again when it raised
ResolveAndRetry(i, o) ==
    /\ pc = "gather"
    /\ task[i] = "pending"
    /\ task' = [task EXCEPT ![i] = IF o.kind = "error" THEN "created" ELSE "done"]
    /\ outcome' = IF o.kind = "error" THEN outcome ELSE (i :> o) @@ outcome
    /\ completion' = IF o.kind = "error" THEN completion ELSE Append(completion, i)
    /\ UNCHANGED <<num_variations, current_room_paths, inspiration_paths,
                   unloadable, current_room_images, inspiration_images, pc,
                   requests, results, pos, generated_images,
                   total_input_tokens, total_output_tokens, writing, files,
                   out, returned>>
    /\ UNCHANGED <<prog, aside, error, dirs>>

\* the remote call of task i raises or returns a response
Resolve(i, o) ==
    /\ pc = "gather"
    /\ task[i] = "pending"
    /\ task' = [task EXCEPT ![i] = "done"]
    /\ outcome' = (i :> o) @@ outcome
    /\ completion' = Append(completion, i)
    /\ UNCHANGED <<num_variations, current_room_paths, inspiration_paths,
                   unloadable, current_room_images, inspiration_images, pc,
                   requests, results, pos, generated_images,
                   total_input_tokens, total_output_tokens, writing, files,
                   out, returned>>
    /\ UNCHANGED <<prog, aside, error, dirs>>

\* results = await asyncio.gather(*tasks, return_exceptions=True)
GatherReturn ==
    /\ pc = "gather"
    /\ task # <<>>
    /\ \A i \in Indices(num_variations) : task[i] = "done"
    /\ results' = GatherResults
    /\ pos' = 1
    /\ generated_images' = <<>>
    /\ total_input_tokens' = 0
    /\ total_output_tokens' = 0
    /\ pc' = "loop"
    /\ UNCHANGED <<num_variations, current_room_paths, inspiration_paths,
                   unloadable, current_room_images, inspiration_images, task,
                   requests, outcome, completion, writing, files, out,
                   returned>>
    /\ UNCHANGED <<prog, aside, error, dirs>>

\* an iteration that tracks the tokens of every response, with or without
\* an image in it
ProcessResultCountingAll ==
    /\ pc = "loop"
    /\ pos <= Len(results)
    /\ LET r == results[pos]
           logged == out \o log_usage_info(r.response, r.i + 1)
           p == ExtractImage(r.response.parts)
       IN  IF r.exc
           THEN /\ out' = Append(out, Line("failed_exc", 0, 0, 0, <<>>))
                /\ pos' = pos + 1
                /\ UNCHANGED <<pc, generated_images, writing, error, dirs,
                               total_input_tokens, total_output_tokens>>
           ELSE IF r.response.kind = "malformed"
           THEN /\ out' = logged
                /\ pc' = "raised"
                /\ error' = "candidates"
                /\ UNCHANGED <<pos, generated_images, writing, dirs,
                               total_input_tokens, total_output_tokens>>
           ELSE IF p > 0
           THEN /\ generated_images' =
                       Append(generated_images, [idx |-> r.i, part |-> p])
                /\ out' = logged
                /\ UNCHANGED <<pos, total_input_tokens, total_output_tokens>>
                /\ IF MakeDirRaises(output_dir, makedirs_exist_ok)
                   THEN /\ pc' = "raised"
                        /\ error' = "makedirs"
                        /\ UNCHANGED <<writing, dirs>>
                   ELSE /\ dirs' = dirs \cup {output_dir}
                        /\ writing' = writing \cup {OutputPath(r.i)}
                        /\ pc' = "saving"
                        /\ UNCHANGED error
           ELSE /\ out' = Append(logged, Line("failed", r.i + 1, 0, 0, <<>>))
                /\ pos' = pos + 1
                /\ total_input_tokens' =
                       total_input_tokens + r.response.usage.prompt_token_count
                /\ total_output_tokens' =
                       total_output_tokens + r.response.usage.candidates_token_count
                /\ UNCHANGED <<pc, generated_images, writing, error, dirs>>
    /\ UNCHANGED <<num_variations, current_room_paths, inspiration_paths,
                   unloadable, current_room_images, inspiration_images, task,
                   requests, outcome, completion, results, files, returned>>
    /\ UNCHANGED <<prog, aside>>

\* one iteration of "for result in results", up to image.save
ProcessResult ==
    /\ pc = "loop"
    /\ pos <= Len(results)
    /\ LET r == results[pos]
           logged == out \o log_usage_info(r.response, r.i + 1)
           p == ExtractImage(r.response.parts)
       IN  IF r.exc
           THEN /\ out' = Append(out, Line("failed_exc", 0, 0, 0, <<>>))
                /\ pos' = pos + 1
                /\ UNCHANGED <<pc, generated_images, writing, error, dirs>>
           ELSE IF r.response.kind = "malformed"
           THEN \* response.candidates[0] raises out of the function
                /\ out' = logged
                /\ pc' = "raised"
                /\ error' = "candidates"
                /\ UNCHANGED <<pos, generated_images, writing, dirs>>
           ELSE IF p > 0
           THEN /\ generated_images' =
                       Append(generated_images, [idx |-> r.i, part |-> p])
                /\ out' = logged
                /\ UNCHANGED pos
                /\ IF MakeDirRaises(output_dir, makedirs_exist_ok)
                   THEN /\ pc' = "raised"
                        /\ error' = "makedirs"
                        /\ UNCHANGED <<writing, dirs>>
                   ELSE /\ dirs' = dirs \cup {output_dir}
                        /\ writing' = writing \cup {OutputPath(r.i)}
                        /\ pc' = "saving"
                        /\ UNCHANGED error
           ELSE /\ out' = Append(logged, Line("failed", r.i + 1, 0, 0, <<>>))
                /\ pos' = pos + 1
                /\ UNCHANGED <<pc, generated_images, writing, error, dirs>>
    /\ UNCHANGED <<num_variations, current_room_paths, inspiration_paths,
                   unloadable, current_room_images, inspiration_images, task,
                   requests, outcome, completion, results,
                   total_input_tokens, total_output_tokens, files, returned>>
    /\ UNCHANGED <<prog, aside>>

\* image.save succeeds; the rest of the iteration: print, token tracking
SaveImage ==
    /\ pc = "saving"
    /\ LET r == results[pos]
           u == r.response.usage
       IN  /\ writing' = writing \ {OutputPath(r.i)}
           /\ files' = Append(files, [idx |-> r.i, path |-> OutputPath(r.i)])
           /\ out' = Append(out, Line("saved", r.i + 1, 0, 0, OutputPath(r.i)))
           /\ IF u.meta = "none"
              THEN \* usage.prompt_token_count of None raises
                   /\ pc' = "raised"
                   /\ error' = "usage"
                   /\ UNCHANGED <<pos, total_input_tokens, total_output_tokens>>
              ELSE /\ pc' = "loop"
                   /\ pos' = pos + 1
                   /\ UNCHANGED error
                   /\ total_input_tokens' =
                          total_input_tokens + u.prompt_token_count
                   /\ total_output_tokens' =
                          total_output_tokens + u.candidates_token_count
    /\ UNCHANGED <<num_variations, current_room_paths, inspiration_paths,
                   unloadable, current_room_images, inspiration_images, task,
                   requests, outcome, completion, results, generated_images,
                   returned>>
    /\ UNCHANGED <<prog, aside, dirs>>

\* image.save raises (the disk is full, the path is not writable)
SaveFails ==
    /\ pc = "saving"
    /\ writing' = writing \ {OutputPath(results[pos].i)}
    /\ pc' = "raised"
    /\ error' = "save"
    /\ UNCHANGED <<num_variations, current_room_paths, inspiration_paths,
                   unloadable, current_room_images, inspiration_images, task,
                   requests, outcome, completion, results, pos,
                   generated_images, total_input_tokens, total_output_tokens,
                   files, out, returned>>
    /\ UNCHANGED <<prog, aside, dirs>>

\* after the loop: the usage summary and the return
Summarize ==
    /\ pc = "loop"
    /\ pos > Len(results)
    /\ LET total_tokens == total_input_tokens + total_output_tokens
           total_cost == total_input_tokens * InputPrice
                         + total_output_tokens * OutputPrice
       IN  IF total_tokens > 0
           THEN IF Len(generated_images) = 0
                THEN \* total_cost / len(generated_images) divides by zero
                     /\ pc' = "raised"
                     /\ error' = "zero_division"
                     /\ UNCHANGED <<out, returned>>
                ELSE /\ out' = Append(out,
                            Line("summary", total_tokens, total_cost,
                                 total_cost \div Len(generated_images), <<>>))
                     /\ returned' = generated_images
                     /\ pc' = "done"
                     /\ UNCHANGED error
           ELSE /\ returned' = generated_images
                /\ pc' = "done"
                /\ UNCHANGED <<out, error>>
    /\ UNCHANGED <<num_variations, current_room_paths, inspiration_paths,
                   unloadable, current_room_images, inspiration_images, task,
                   requests, outcome, completion, results, pos,
                   generated_images, total_input_tokens, total_output_tokens,
                   writing, files>>
    /\ UNCHANGED <<prog, aside, dirs>>

Next ==
    \/ LoadImages
    \/ CreateTasks
    \/ \E i \in Indices(num_variations) : IssueRequest(i)
    \/ \E i \in Indices(num_variations), o \in Outcomes : Resolve(i, o)
    \/ GatherReturn
    \/ ProcessResult
    \/ SaveImage
    \/ SaveFails
    \/ Summarize

Spec == Init /\ [][Next]_vars

(***************************************************************************)
(* The loading and dispatch phase alone, over every choice of reference    *)
(* image paths and of the paths that fail to load.                         *)
(***************************************************************************)
AllPaths(rooms, insps) == Range(RoomPaths(rooms)) \cup Range(InspirationPaths(insps))

InitRefs ==
    \E n \in 1 .. MaxVariations, rooms \in 0 .. MaxRoomPaths,
       insps \in 0 .. MaxInspirationPaths :
        \E bad \in SUBSET AllPaths(rooms, insps) :
            InitCall(n, rooms, insps, bad)

NextRefs ==
    \/ LoadImages
    \/ CreateTasks
    \/ \E i \in Indices(num_variations) : IssueRequest(i)

SpecRefs == InitRefs /\ [][NextRefs]_vars

(***************************************************************************)
(* The processing loop of a large batch, from the moment every request     *)
(* has resolved: every response holds an image, except at most one index.  *)
(***************************************************************************)
BigOutcome(i, f, o) ==
    IF i = f THEN o ELSE Response(<<TextPart, ImagePart>>, Usage(1000, 1290))

InitBig ==
    \E f \in -1 .. (MaxBigBatch - 1),
       o \in {ErrorOutcome, Response(<<TextPart>>, Usage(1000, 500))} :
        /\ num_variations = MaxBigBatch
        /\ current_room_paths = <<>>
        /\ inspiration_paths = <<>>
        /\ unloadable = {}
        /\ current_room_images = <<>>
        /\ inspiration_images = <<>>
        /\ pc = "gather"
        /\ task = [i \in Indices(MaxBigBatch) |-> "done"]
        /\ requests = [i \in Indices(MaxBigBatch) |-> <<>>]
        /\ outcome = [i \in Indices(MaxBigBatch) |-> BigOutcome(i, f, o)]
        /\ completion = [x \in 1 .. MaxBigBatch |-> x - 1]
        /\ results = <<>>
        /\ pos = 1
        /\ generated_images = <<>>
        /\ total_input_tokens = 0
        /\ total_output_tokens = 0
        /\ writing = {}
        /\ files = <<>>
        /\ out = <<>>
        /\ returned = <<>>
        /\ output_dir = OutputDir
        /\ error = "none"
        /\ dirs = {"."}
        /\ run = 1
        /\ caller = "script"
        /\ env_key = "key"
        /\ missing = {}
        /\ args_output_dir = ""
        /\ prog_pc = "running"
        /\ grid_file = <<>>
        /\ exit_status = -1
        /\ AsideIdle

NextBig ==
    \/ GatherReturn
    \/ ProcessResult
    \/ SaveImage
    \/ SaveFails
    \/ Summarize

SpecBig == InitBig /\ [][NextBig]_vars

(***************************************************************************)
(* The entry points.  cli.py: main validates the image paths, creates the  *)
(* output directory, constructs the designer, calls                        *)
(* generate_design_variations WITHOUT awaiting it (line 120: the call only *)
(* creates a coroutine object, which nothing ever runs) and hands the      *)
(* coroutine to save_variations_grid.  A script in the shape of            *)
(* interior_designer.main constructs the designer, runs the batch with     *)
(* asyncio.run and saves the grid of the returned images.                  *)
(***************************************************************************)
\* the locals of the batch, which no step of an entry point touches
locals == <<num_variations, unloadable, current_room_images,
            inspiration_images, task, requests, outcome, completion, results,
            pos, generated_images, total_input_tokens, total_output_tokens,
            writing, files, returned>>

\* self.api_key = api_key or os.getenv("GEMINI_API_KEY")
ResolveKey(api_key, env) == IF api_key # "" THEN api_key ELSE env

\* a constructor that accepts any key
KeyNeverMissing(api_key, env) == FALSE

\* if not self.api_key: raise ValueError
KeyMissing(api_key, env) == ResolveKey(api_key, env) = ""

\* validate_image_paths: the paths that exist, in order
validate_image_paths(paths) == SelectLoadable(paths, missing)

MissingWarnings(paths) ==
    [x \in DOMAIN LoadWarnings(paths, missing) |->
        [LoadWarnings(paths, missing)[x] EXCEPT !.t = "warn_missing"]]

\* save_variations_grid on what it is handed: a coroutine object is truthy
\* and has no len(); an empty list is reported; a list of images is saved
GridResult(kind, images) ==
    IF kind = "coroutine" THEN "type_error"
    ELSE IF images = <<>> THEN "no_images"
    ELSE "saved"

OutputDirs == {".", "output", "renders"}

InitProgram ==
    \E c \in {"cli", "script"}, k \in {"", "key"}, n \in 1 .. MaxVariations,
       d \in OutputDirs, gone \in SUBSET {<<"room", 1>>, <<"inspiration", 1>>},
       there \in SUBSET {"output"} :
        /\ caller = c
        /\ env_key = k
        /\ num_variations = n
        /\ args_output_dir = IF c = "cli" THEN d ELSE ""
        /\ missing = IF c = "cli" THEN gone ELSE {}
        /\ dirs = {"."} \cup there
        /\ current_room_paths = RoomPaths(RoomImageCap + 1)
        /\ inspiration_paths = InspirationPaths(1)
        /\ unloadable = {}
        /\ current_room_images = <<>>
        /\ inspiration_images = <<>>
        /\ pc = "new"
        /\ task = <<>>
        /\ requests = <<>>
        /\ outcome = <<>>
        /\ completion = <<>>
        /\ results = <<>>
        /\ pos = 1
        /\ generated_images = <<>>
        /\ total_input_tokens = 0
        /\ total_output_tokens = 0
        /\ writing = {}
        /\ files = <<>>
        /\ out = <<>>
        /\ returned = <<>>
        /\ output_dir = ""
        /\ error = "none"
        /\ run = 1
        /\ prog_pc = "boot"
        /\ grid_file = <<>>
        /\ exit_status = -1
        /\ AsideIdle

\* cli.py main, lines 74-82
CliPrepare ==
    /\ caller = "cli"
    /\ prog_pc = "boot"
    /\ current_room_paths' = validate_image_paths(current_room_paths)
    /\ inspiration_paths' = validate_image_paths(inspiration_paths)
    /\ out' = out \o MissingWarnings(current_room_paths)
                  \o MissingWarnings(inspiration_paths)
    /\ IF MakeDirRaises(args_output_dir, mkdir_exist_ok)
       THEN /\ error' = "mkdir"
            /\ exit_status' = 1
            /\ prog_pc' = "exited"
            /\ UNCHANGED dirs
       ELSE /\ dirs' = dirs \cup {args_output_dir}
            /\ prog_pc' = "prepared"
            /\ UNCHANGED <<error, exit_status>>
    /\ UNCHANGED <<locals, aside, pc, output_dir, run, caller, env_key, missing,
                   args_output_dir, grid_file>>

\* designer = InteriorDesigner(): a missing key raises ValueError, which
\* cli.py catches (exit 1) and which ends a script with a traceback
Construct ==
    /\ \/ caller = "cli" /\ prog_pc = "prepared"
       \/ caller = "script" /\ prog_pc = "boot"
    /\ IF KeyMissing("", env_key)
       THEN /\ error' = "config"
            /\ exit_status' = 1
            /\ prog_pc' = "exited"
       ELSE /\ prog_pc' = "constructed"
            /\ UNCHANGED <<error, exit_status>>
    /\ UNCHANGED <<locals, aside, current_room_paths, inspiration_paths, pc, out,
                   output_dir, dirs, run, caller, env_key, missing,
                   args_output_dir, grid_file>>

\* cli.py line 120: the call binds the arguments (output_dir is not passed
\* and takes its default) and returns a coroutine that is never awaited
CliCallGenerate ==
    /\ caller = "cli"
    /\ prog_pc = "constructed"
    /\ pc' = "coroutine"
    /\ output_dir' = OutputDir
    /\ prog_pc' = "called"
    /\ UNCHANGED <<locals, aside, current_room_paths, inspiration_paths, out, error,
                   dirs, run, caller, env_key, missing, args_output_dir,
                   grid_file, exit_status>>

\* the end of an entry point: save_variations_grid and the exit
FinishWithGrid(kind, images, grid_path) ==
    /\ prog_pc' = "exited"
    /\ IF GridResult(kind, images) = "type_error"
       THEN /\ error' = "type_error"
            /\ exit_status' = 1
            /\ UNCHANGED <<grid_file, out>>
       ELSE /\ exit_status' = 0
            /\ UNCHANGED error
            /\ IF GridResult(kind, images) = "saved"
               THEN /\ grid_file' = grid_path
                    /\ out' = Append(out, Line("grid", Len(images), 0, 0, grid_path))
               ELSE /\ out' = Append(out, Line("no_images", 0, 0, 0, <<>>))
                    /\ UNCHANGED grid_file
    /\ UNCHANGED <<locals, aside, current_room_paths, inspiration_paths, pc,
                   output_dir, dirs, run, caller, env_key, missing,
                   args_output_dir>>

\* cli.py lines 129-138, with the coroutine as "variations"
CliSaveGrid ==
    /\ caller = "cli"
    /\ prog_pc = "called"
    /\ FinishWithGrid("coroutine", <<>>, <<args_output_dir, "/all_variations.png">>)

\* asyncio.run(designer.generate_design_variations(...)) starts the batch
ScriptRun ==
    /\ caller = "script"
    /\ prog_pc = "constructed"
    /\ pc' = "start"
    /\ output_dir' = OutputDir
    /\ prog_pc' = "running"
    /\ UNCHANGED <<locals, aside, current_room_paths, inspiration_paths, out, error,
                   dirs, run, caller, env_key, missing, args_output_dir,
                   grid_file, exit_status>>

\* designer.save_variations_grid(variations) after the batch returned
ScriptSaveGrid ==
    /\ caller = "script"
    /\ prog_pc = "running"
    /\ pc = "done"
    /\ FinishWithGrid("list", returned, <<"all_variations.png">>)

\* the batch raised: nothing catches it and the script ends
ScriptCrash ==
    /\ caller = "script"
    /\ prog_pc = "running"
    /\ pc = "raised"
    /\ prog_pc' = "exited"
    /\ exit_status' = 1
    /\ UNCHANGED <<locals, aside, current_room_paths, inspiration_paths, pc, out,
                   output_dir, error, dirs, run, caller, env_key, missing,
                   args_output_dir, grid_file>>

NextProgram ==
    \/ CliPrepare
    \/ Construct
    \/ CliCallGenerate
    \/ CliSaveGrid
    \/ ScriptRun
    \/ ScriptSaveGrid
    \/ ScriptCrash
    \/ Next

SpecProgram == InitProgram /\ [][NextProgram]_vars

(***************************************************************************)
(* The batch run again against the same disk.                              *)
(***************************************************************************)
MaxRuns == 2

Rerun ==
    /\ pc \in {"done", "raised"}
    /\ prog_pc = "running"
    /\ run < MaxRuns
    /\ run' = run + 1
    /\ pc' = "start"
    /\ error' = "none"
    /\ current_room_images' = <<>>
    /\ inspiration_images' = <<>>
    /\ task' = <<>>
    /\ requests' = <<>>
    /\ outcome' = <<>>
    /\ completion' = <<>>
    /\ results' = <<>>
    /\ pos' = 1
    /\ generated_images' = <<>>
    /\ total_input_tokens' = 0
    /\ total_output_tokens' = 0
    /\ writing' = {}
    /\ files' = <<>>
    /\ out' = <<>>
    /\ returned' = <<>>
    /\ UNCHANGED <<num_variations, current_room_paths, inspiration_paths,
                   unloadable, output_dir, dirs, caller, env_key, missing,
                   args_output_dir, prog_pc, grid_file, exit_status, aside>>

NextRuns ==
    \/ Rerun
    \/ Next

SpecRuns == Init /\ [][NextRuns]_vars

(***************************************************************************)
(* Vocabulary of the properties.                                           *)
(***************************************************************************)
Finished == pc \in {"done", "raised"}

\* the response of index i holds an image: some part has inline data
HoldsImage(o) == o.kind = "parts" /\ \E x \in DOMAIN o.parts : o.parts[x].inline

\* the request of index i failed: an error, a malformed response, no image
IsFailure(o) == ~HoldsImage(o)

FailureLines == {x \in DOMAIN out : out[x].t \in {"failed_exc", "failed"}}

FileIndices == {files[x].idx : x \in DOMAIN files}
ReturnedIndices == {returned[x].idx : x \in DOMAIN returned}

\* C1: every batch of N >= 1 variations, whatever requests fail, returns
\* normally, and the indices reported as succeeded plus the indices
\* reported as failed are N.
C1_ReturnsWithNOutcomes ==
    Finished =>
        /\ pc = "done"
        /\ Len(returned) + Cardinality(FailureLines) = num_variations

\* C2: a request that raised an error leaves its siblings alone: each of
\* them is resolved, and each sibling whose response holds an image is
\* persisted and returned by the batch.  (A sibling whose own iteration
\* raised, its file write or its token tracking, is not held against the
\* batch here.)
C2_ErrorLeavesSiblingsAlone ==
    Finished =>
        \A i \in Indices(num_variations), j \in Indices(num_variations) :
            (i # j /\ outcome[i].kind = "error") =>
                /\ task[j] = "done"
                /\ HoldsImage(outcome[j]) =>
                       \/ j \in FileIndices /\ j \in ReturnedIndices
                       \/ pc = "raised" /\ pos = j + 1

\* C3: a failure of any kind at index i (an error, a malformed response, a
\* response without an image) is captured for that index only: the batch
\* does not raise at it, and every other index is still processed.
C3_FailureIsCapturedPerIndex ==
    Finished =>
        \A i \in Indices(num_variations) :
            IsFailure(outcome[i]) =>
                /\ ~(pc = "raised" /\ pos = i + 1)
                /\ \A j \in Indices(num_variations) : j # i => pos > j + 1

\* C4: the returned images are in ascending order of their variation
\* index, in whatever order the requests completed.
C4_ReturnedInIndexOrder ==
    /\ \A a \in DOMAIN returned, b \in DOMAIN returned :
           a < b => returned[a].idx < returned[b].idx
    /\ \A a \in DOMAIN generated_images, b \in DOMAIN generated_images :
           a < b => generated_images[a].idx < generated_images[b].idx

\* C4, the case: two images are returned whose requests completed in the
\* opposite order.
C4_Witness ==
    /\ pc = "done"
    /\ \E a \in DOMAIN returned, b \in DOMAIN returned :
           /\ a < b
           /\ \E x \in DOMAIN completion, y \in DOMAIN completion :
                  /\ x < y
                  /\ completion[x] = returned[b].idx
                  /\ completion[y] = returned[a].idx

\* C5: when every request fails, the batch returns an empty sequence with
\* zero input tokens, zero output tokens and no cost, writes no file and
\* does not raise.
C5_AllFailuresReturnEmpty ==
    (Finished /\ \A i \in Indices(num_variations) : IsFailure(outcome[i])) =>
        /\ pc = "done"
        /\ returned = <<>>
        /\ total_input_tokens = 0
        /\ total_output_tokens = 0
        /\ \A x \in DOMAIN out : out[x].t # "summary"
        /\ files = <<>>

\* the counts a response reports, none when it carries no usage metadata
ReportedInput(o) == IF o.usage.meta = "ok" THEN o.usage.prompt_token_count ELSE 0
ReportedOutput(o) == IF o.usage.meta = "ok" THEN o.usage.candidates_token_count ELSE 0

ImageIndices == {i \in DOMAIN outcome : HoldsImage(outcome[i])}

\* C6: only successes count.  The token totals are the sums of the counts
\* reported by the responses that yielded an image and whose iteration is
\* complete, each once; every file belongs to such an index, one file per
\* index; a failed index has no file and adds no token; and when the batch
\* returns, the files are those of exactly the image-holding indices.
C6_OnlySuccessesCount ==
    /\ total_input_tokens =
           SumSeq([x \in DOMAIN files |-> ReportedInput(outcome[files[x].idx])])
    /\ total_output_tokens =
           SumSeq([x \in DOMAIN files |-> ReportedOutput(outcome[files[x].idx])])
    /\ FileIndices \subseteq ImageIndices
    /\ Cardinality(FileIndices) = Len(files)
    /\ pc = "done" => FileIndices = ImageIndices

\* C6, the case: a batch has returned with a success and with a failure
\* whose response reported token counts.
C6_Witness ==
    /\ pc = "done"
    /\ total_input_tokens > 0
    /\ \E i \in Indices(num_variations) :
           IsFailure(outcome[i]) /\ ReportedInput(outcome[i]) > 0
    /\ \E i \in Indices(num_variations) : HoldsImage(outcome[i])

\* C8: the estimated cost of an image-bearing response does not depend on
\* the output-token count it reports: two image-bearing responses with the
\* same input-token count are logged with the same output cost.
C8_ImageCostIsFlat ==
    \A x \in DOMAIN out, y \in DOMAIN out :
        ( /\ out[x].t = "usage" /\ out[y].t = "usage"
          /\ HoldsImage(outcome[out[x].num - 1])
          /\ HoldsImage(outcome[out[y].num - 1])
          /\ out[x].a = out[y].a )
        => out[x].b = out[y].b

FirstOf(s, n) == [x \in 1 .. n |-> s[x]]

\* C7, as stated: when more images are supplied than the cap of 3, every
\* request carries exactly the first 3 images in input order and no other
\* image.
C7_ExactlyFirstThree ==
    \A i \in DOMAIN requests :
        Len(current_room_images) > RoomImageCap =>
            requests[i] = FirstOf(current_room_images, RoomImageCap)

\* C7, amended: when more than 3 current-room images are loaded, every
\* request carries the first 3 of them in input order, followed by the
\* first 2 inspiration images (all of them when there are fewer than 2),
\* and no other image.
C7_FirstThreeThenInspiration ==
    \A i \in DOMAIN requests :
        Len(current_room_images) > RoomImageCap =>
            requests[i] =
                FirstOf(current_room_images, RoomImageCap)
                \o FirstOf(inspiration_images,
                           IF Len(inspiration_images) < InspirationImageCap
                           THEN Len(inspiration_images)
                           ELSE InspirationImageCap)

\* C7, the case: 5 room images were supplied and loaded, more inspiration
\* images than 2 as well, and every request of the batch has been issued.
C7_Witness ==
    /\ Len(current_room_images) = 5
    /\ Len(inspiration_images) > InspirationImageCap
    /\ num_variations > 1
    /\ DOMAIN requests = Indices(num_variations)

DigitValue(c) == CHOOSE d \in 0 .. 9 : DigitChar(d) = c

RECURSIVE Decimal(_)
\* the number a sequence of digits denotes
Decimal(ds) == IF ds = <<>> THEN 0
               ELSE 10 * Decimal(SubSeq(ds, 1, Len(ds) - 1)) + DigitValue(ds[Len(ds)])

\* the pieces of a file name between "design_variation_" and ".png"
NumberField(path) == SubSeq(path, 3, Len(path) - 1)

LastFile == files[Len(files)]

\* C9: the file of 0-based index i is named with the number i + 1 in
\* decimal, zero-padded to 2 digits: 01 for index 0, 10 for index 9.
C9_NameIsOneBasedTwoDigits ==
    files # <<>> =>
        LET f == LastFile
            field == NumberField(f.path)
        IN  /\ f.path[1] = output_dir
            /\ f.path[2] = "/design_variation_"
            /\ f.path[Len(f.path)] = ".png"
            /\ Len(field) >= 2
            /\ f.idx + 1 < 100 => Len(field) = 2
            /\ Decimal(field) = f.idx + 1
            /\ f.idx = 0 => field = <<"0", "1">>
            /\ f.idx = 9 => field = <<"1", "0">>

\* C9, the case: the files of index 0 and of index 9 have been written.
C9_Witness ==
    /\ Len(files) >= 10
    /\ files[1].idx = 0
    /\ LastFile.idx = 9

\* C10: no two file writes of a batch target the same path, also when the
\* number needs 3 digits, and no two writes are in progress at once (a
\* write happens only when no request is in flight any more).
C10_WritesNeverCollide ==
    /\ Cardinality({files[x].path : x \in DOMAIN files}) = Len(files)
    /\ \A p \in writing : \A x \in DOMAIN files : files[x].path # p
    /\ Cardinality(writing) <= 1
    /\ writing # {} => \A i \in DOMAIN task : task[i] = "done"

\* C10, the case: the file of index 99 (number 100) is being written after
\* 99 other files.
C10_Witness ==
    /\ pc = "saving"
    /\ results[pos].i >= 99
    /\ Len(files) >= 99
    /\ writing # {}

(***************************************************************************)
(* Properties of the entry points.                                         *)
(***************************************************************************)
Exited == prog_pc = "exited"

\* C11: when the API key is absent (not passed in, not in the environment),
\* constructing the designer raises a configuration error before any
\* request is dispatched: no task is created, no remote call is made, no
\* variation file is written, and the process exits with a non-zero status.
C11_MissingKeyStopsBeforeAnyRequest ==
    env_key = "" =>
        /\ pc = "new"
        /\ task = <<>>
        /\ requests = <<>>
        /\ writing = {}
        /\ files = <<>>
        /\ prog_pc \in {"boot", "prepared", "exited"}
        /\ Exited => error = "config" /\ exit_status > 0

\* C11, the case: the CLI was started without a key and has exited.
C11_Witness ==
    /\ env_key = ""
    /\ caller = "cli"
    /\ Exited

(***************************************************************************)
(* Reference images that cannot be loaded.                                 *)
(***************************************************************************)
KeptPositions(paths) == {x \in DOMAIN paths : paths[x] \notin unloadable}

\* the loadable paths of a list, in their input order
Loadable(paths) ==
    [k \in 1 .. Cardinality(KeptPositions(paths)) |->
        paths[CHOOSE x \in KeptPositions(paths) :
                Cardinality({y \in KeptPositions(paths) : y < x}) = k - 1]]

UpTo(s, n) == FirstOf(s, IF Len(s) < n THEN Len(s) ELSE n)

WarnedPaths == {out[x].path[1] : x \in {y \in DOMAIN out : out[y].t = "warn_load"}}

\* what C12 says of the warnings and of the dispatch
SkippedWithWarningAndDispatched ==
    /\ pc # "raised"
    /\ error = "none"
    /\ pc # "start" =>
         WarnedPaths = unloadable \cap (Range(current_room_paths)
                                        \cup Range(inspiration_paths))
    /\ pc = "gather" =>
         /\ DOMAIN task = Indices(num_variations)
         /\ (\E i \in DOMAIN task : task[i] = "created")
              => ENABLED (\E i \in Indices(num_variations) : IssueRequest(i))

\* C12, as stated: an unloadable reference path is skipped with a warning
\* and does not fail the batch; the images attached to the requests are
\* exactly the loadable ones, in input order; all N requests are dispatched.
C12_AttachedAreExactlyTheLoadable ==
    /\ SkippedWithWarningAndDispatched
    /\ \A i \in DOMAIN requests :
         requests[i] = Loadable(current_room_paths) \o Loadable(inspiration_paths)

\* C12, amended: an unloadable reference path is skipped with a warning and
\* does not fail the batch; the images attached to every request are the
\* loadable ones in input order, cut to the first 3 current-room images and
\* the first 2 inspiration images; all N requests are dispatched.
C12_AttachedAreTheLoadableUpToTheCaps ==
    /\ SkippedWithWarningAndDispatched
    /\ \A i \in DOMAIN requests :
         requests[i] = UpTo(Loadable(current_room_paths), RoomImageCap)
                       \o UpTo(Loadable(inspiration_paths), InspirationImageCap)

\* C12, the case: a room path in the middle of the list and an inspiration
\* path cannot be loaded, and every request of the batch has been issued.
C12_Witness ==
    /\ <<"room", 2>> \in unloadable
    /\ <<"inspiration", 1>> \in unloadable
    /\ Len(current_room_paths) >= 3
    /\ Len(inspiration_paths) >= 2
    /\ num_variations > 1
    /\ DOMAIN requests = Indices(num_variations)

(***************************************************************************)
(* The output directory.                                                   *)
(***************************************************************************)
\* C13: running the batch twice against the same output directory does not
\* raise because the directory already exists: its creation succeeds when
\* the directory is absent and when it is present, and the file is then
\* written into it.
C13_DirectoryCreationIsIdempotent ==
    /\ error # "makedirs"
    /\ pc = "saving" => output_dir \in dirs
    /\ files # <<>> => output_dir \in dirs

\* C13, the case: in the second run a second image is being saved, so the
\* directory was created while present (the first image of this run is on
\* disk in it).
C13_Witness ==
    /\ run = MaxRuns
    /\ pc = "saving"
    /\ files # <<>>

\* C14: the CLI exits with a non-zero status only on total failure (the
\* batch ran and no variation succeeded) or on a configuration error; a run
\* with at least one success exits with status 0.
C14_NonZeroExitOnlyOnTotalFailure ==
    (caller = "cli" /\ Exited /\ exit_status # 0) =>
        \/ error = "config"
        \/ pc = "done" /\ returned = <<>>

\* C15: when the CLI is run with --output-dir D, the batch it starts is
\* bound to write its variation images inside D, the directory of the grid
\* overview and the one the CLI reports.
C15_VariationsGoToTheOutputDir ==
    (caller = "cli" /\ pc # "new") => output_dir = args_output_dir

(***************************************************************************)
(* Properties of the report of a batch.                                    *)
(***************************************************************************)
\* the positions of results the loop has gone past without raising
Recorded == {k \in DOMAIN results : k < pos}

\* C16: every failed request is recorded with the index of the request it
\* came from: for a request that raised an error as for a response that
\* held no image, a failure line names the variation (index + 1).
C16_FailureNamesItsIndex ==
    \A k \in Recorded :
        IsFailure(outcome[k - 1]) =>
            \E x \in FailureLines : out[x].num = k

\* C17: a failure to write an image to disk is a failure of that result
\* only: the batch does not raise because of it.
C17_WriteFailureDoesNotRaise ==
    ~(pc = "raised" /\ error = "save")

\* C18: whenever a batch finishes, whatever the mix of successes and
\* failures, a summary has been reported.
C18_SummaryAlwaysReported ==
    pc = "done" => \E x \in DOMAIN out : out[x].t = "summary"

(***************************************************************************)
(* Properties of the dispatch and of the wait.                             *)
(***************************************************************************)
AllResolved ==
    /\ DOMAIN task = Indices(num_variations)
    /\ \A i \in DOMAIN task : task[i] = "done"

Waiting == pc \in {"start", "loaded", "gather"}

NothingProcessed ==
    /\ results = <<>>
    /\ generated_images = <<>>
    /\ returned = <<>>
    /\ files = <<>>
    /\ writing = {}
    /\ total_input_tokens = 0
    /\ total_output_tokens = 0
    /\ \A x \in DOMAIN out : out[x].t = "warn_load"

\* C19: the requests are issued without waiting for one another and the
\* orchestrator waits once for all of them: while a request is still to be
\* issued it can be issued whatever the state of the others, and no
\* response is processed (no image extracted, no file written, no token
\* counted, no cost computed) before all N requests have resolved.
C19_IssueAllThenWaitOnce ==
    /\ (pc = "gather" /\ \E i \in DOMAIN task : task[i] = "created")
         => ENABLED (\E i \in Indices(num_variations) : IssueRequest(i))
    /\ Waiting => NothingProcessed
    /\ ~Waiting => AllResolved /\ DOMAIN requests = Indices(num_variations)

\* C19, the case: one request has resolved with an image, another one is
\* pending and a third one is still to be issued.
C19_Witness ==
    /\ pc = "gather"
    /\ \E i, j, k \in DOMAIN task :
         /\ task[i] = "pending"
         /\ task[j] = "done" /\ HoldsImage(outcome[j])
         /\ task[k] = "created"

(***************************************************************************)
(* Termination.  The event loop runs every step that is ready: the steps   *)
(* of the orchestrator and the start of each task are taken eventually.    *)
(* Nothing makes the remote service answer: a pending call may stay        *)
(* pending for ever (no timeout is set on the request).                    *)
(***************************************************************************)
OrchestratorStep ==
    \/ LoadImages
    \/ CreateTasks
    \/ \E i \in Indices(num_variations) : IssueRequest(i)
    \/ GatherReturn
    \/ ProcessResult
    \/ SaveImage
    \/ SaveFails
    \/ Summarize

SpecLive == Init /\ [][Next]_vars /\ WF_vars(OrchestratorStep)

\* C20: the batch returns if and only if every request resolves: while a
\* request is unresolved the batch has not returned and has written no
\* file, and once each of the N requests has succeeded or failed the batch
\* eventually returns.
C20_ReturnsIffEveryRequestResolves ==
    /\ [](~AllResolved => (pc # "done" /\ files = <<>> /\ writing = {}))
    /\ (AllResolved ~> pc = "done")

\* the half of C20 on a request that never resolves, and the end of the
\* call (a return or a raised exception) for the other half
C20_EndsIffEveryRequestResolves ==
    /\ [](~AllResolved => (~Finished /\ files = <<>> /\ writing = {}))
    /\ (AllResolved ~> Finished)

(***************************************************************************)
(* The remote calls of a batch.                                            *)
(***************************************************************************)
Called == {i \in DOMAIN task : task[i] # "created"}

\* C21: a batch of N variations makes exactly N remote calls, one for each
\* index 0..N-1: the indexes called are indexes of the batch, all of them
\* have been called when the wait ends, and an index that has been called
\* is never called again, whether it failed or not.
C21_OneCallPerIndex ==
    /\ [](/\ DOMAIN requests = Called
          /\ Called \subseteq Indices(num_variations)
          /\ ~Waiting => Called = Indices(num_variations))
    /\ [][\A i \in Called : i \in DOMAIN task' /\ task'[i] # "created"]_vars

\* C21, the case: a batch of several requests has returned and one of its
\* requests had raised.
C21_Witness ==
    /\ pc = "done"
    /\ num_variations > 1
    /\ \E i \in DOMAIN outcome : outcome[i].kind = "error"

(***************************************************************************)
(* The caps on the reference images.                                       *)
(***************************************************************************)
\* the slices of a request drop a loaded image
Truncates ==
    \/ Len(current_room_images) > RoomImageCap
    \/ Len(inspiration_images) > InspirationImageCap

TruncationWarnings == {x \in DOMAIN out : out[x].t = "warn_truncated"}

\* C22: when more reference images are supplied than the cap, the
\* truncation is surfaced as a warning and the batch is not failed: once a
\* request has been issued, a truncation warning has been emitted exactly
\* when the request left out images beyond the cap, and the requests are
\* all dispatched.
C22_TruncationIsWarned ==
    /\ pc # "raised"
    /\ (pc = "gather" /\ \E i \in DOMAIN task : task[i] = "created")
         => ENABLED (\E i \in Indices(num_variations) : IssueRequest(i))
    /\ requests # <<>> => (TruncationWarnings # {} <=> Truncates)

\* C23: the reference images are shared read-only: every request of one
\* batch carries the identical sequence of reference images, and once the
\* images are loaded neither the dispatch of the requests nor the
\* processing of the responses changes the loaded lists.
C23_ReferencesAreReadOnly ==
    /\ [](\A i, j \in DOMAIN requests : requests[i] = requests[j])
    /\ [][pc # "start" =>
            /\ current_room_images' = current_room_images
            /\ inspiration_images' = inspiration_images]_vars

\* C23, the case: several requests were issued with reference images and a
\* response has been processed down to its file.
C23_Witness ==
    /\ num_variations > 1
    /\ DOMAIN requests = Indices(num_variations)
    /\ requests[0] # <<>>
    /\ files # <<>>

(***************************************************************************)
(* Functions checked on their own.  The batch is idle in these             *)
(* specifications; each one draws the arguments of a function and applies  *)
(* the function as the code computes it.                                   *)
(***************************************************************************)
\* every variable of the batch and of the entry points
whole == <<locals, prog, current_room_paths, inspiration_paths, pc, out,
           error, dirs>>

BatchIdle ==
    /\ num_variations = 1
    /\ current_room_paths = <<>>
    /\ inspiration_paths = <<>>
    /\ unloadable = {}
    /\ current_room_images = <<>>
    /\ inspiration_images = <<>>
    /\ pc = "new"
    /\ task = <<>>
    /\ requests = <<>>
    /\ outcome = <<>>
    /\ completion = <<>>
    /\ results = <<>>
    /\ pos = 1
    /\ generated_images = <<>>
    /\ total_input_tokens = 0
    /\ total_output_tokens = 0
    /\ writing = {}
    /\ files = <<>>
    /\ out = <<>>
    /\ returned = <<>>
    /\ output_dir = ""
    /\ error = "none"
    /\ dirs = {"."}
    /\ run = 1
    /\ caller = "script"
    /\ env_key = "key"
    /\ missing = {}
    /\ args_output_dir = ""
    /\ prog_pc = "constructed"
    /\ grid_file = <<>>
    /\ exit_status = -1

MaxIndex == 8

(***************************************************************************)
(* create_variation_prompt.  A prompt is the tuple of what fills the       *)
(* template: style, colours, mood, variation element, variation number.    *)
(* <<list, 0>> stands for the value of the design prompt itself and        *)
(* <<list, k>> for the k-th entry of a list of the designer.               *)
(***************************************************************************)
\* random.choice draws from the whole list; the model keeps this many entries
MaxChoices == 2

\* random.choice(list): the module-level generator is never seeded
Choices == 1 .. MaxChoices

create_variation_prompt(i, style, colors, mood, element) ==
    << <<"style", IF i > 0 THEN style ELSE 0>>,
       <<"colors", IF i > 0 THEN colors ELSE 0>>,
       <<"mood", IF i > 0 THEN mood ELSE 0>>,
       <<"variation_element", IF i > 0 THEN element ELSE 0>>,
       <<"variation", i + 1>> >>

InitPrompt ==
    /\ BatchIdle
    /\ variation_index \in 0 .. MaxIndex
    /\ prompt = <<>>
    /\ prompt_before = <<>>
    /\ array = <<>>
    /\ picks = <<>>
    /\ lighting = <<>>
    /\ grid_images = 0
    /\ pasted = <<>>
    /\ reply = <<>>
    /\ single_result = <<"none", 0>>
    /\ batch_result = <<"none", 0>>

\* one more call with the same room specs, design prompt and index
CreatePrompt ==
    /\ \E style, colors, mood, element \in Choices :
         prompt' = create_variation_prompt(variation_index, style, colors,
                                           mood, element)
    /\ prompt_before' = prompt
    /\ UNCHANGED <<whole, variation_index, array, picks, lighting,
                   grid_images, pasted, reply, single_result, batch_result>>

NextPrompt ==
    \/ CreatePrompt

SpecPrompt == InitPrompt /\ [][NextPrompt]_vars

\* C24: prompt construction is deterministic in the variation index: two
\* calls with the same room specs, design prompt and index yield the same
\* prompt, for every index, i > 0 included.
C24_PromptIsDeterministic ==
    (prompt # <<>> /\ prompt_before # <<>>) => prompt = prompt_before

(***************************************************************************)
(* The index-based preset selection of the scripts (jaidha_room.py,        *)
(* kitchen.py, living_room_iteration.py).  Python lists are 0-based:       *)
(* array[k] is the element at position k + 1 of the sequence.              *)
(***************************************************************************)
MaxPresets == 3

PresetNames == {"a", "b", "c"}

\* the preset lists: every non-empty list of up to MaxPresets entries
PresetLists == UNION {[1 .. n -> PresetNames] : n \in 1 .. MaxPresets}

\* jaidha_room.py: LIGHTING_PRESETS, by the comment of each entry
LIGHTING_PRESETS == <<"day", "evening", "night", "dusk">>

\* a selection that stays on the last entry past the end of the list
selectClamped(arr, i) == arr[Min(i, Len(arr) - 1) + 1]

\* def select(array): return array[variation_index % len(array)]
select(arr, i) == arr[(i % Len(arr)) + 1]

\* return LIGHTING_PRESETS[index % len(LIGHTING_PRESETS)]
pick_lighting_for(index) == select(LIGHTING_PRESETS, index)

InitPresets ==
    /\ BatchIdle
    /\ variation_index = 0
    /\ array \in PresetLists
    /\ picks = <<>>
    /\ lighting = <<>>
    /\ prompt = <<>>
    /\ prompt_before = <<>>
    /\ grid_images = 0
    /\ pasted = <<>>
    /\ reply = <<>>
    /\ single_result = <<"none", 0>>
    /\ batch_result = <<"none", 0>>

\* create_dynamic_prompt(variation_index, ...) for the next index of the run
SelectPreset ==
    /\ variation_index <= MaxIndex
    /\ picks' = Append(picks, select(array, variation_index))
    /\ lighting' = Append(lighting, pick_lighting_for(variation_index))
    /\ variation_index' = variation_index + 1
    /\ UNCHANGED <<whole, array, prompt, prompt_before, grid_images, pasted,
                   reply, single_result, batch_result>>

NextPresets ==
    \/ SelectPreset

SpecPresets == InitPresets /\ [][NextPresets]_vars

\* C25: the index-based selection is a repeatable cycle: for every index
\* i >= 0 and every non-empty list L the selected element is L[i mod len(L)]
\* (position k of picks is index k - 1), so it is an element of L, indexes
\* i and i + len(L) select the same element, and the lighting cycles day,
\* evening, night, dusk, then repeats.
C25_SelectionCycles ==
    /\ \A k \in DOMAIN picks :
         /\ picks[k] \in Range(array)
         /\ \E x \in DOMAIN array :
              /\ x - 1 < Len(array)
              /\ \E q \in 0 .. k : k - 1 = q * Len(array) + (x - 1)
              /\ picks[k] = array[x]
         /\ k > Len(array) => picks[k] = picks[k - Len(array)]
    /\ \A k \in DOMAIN lighting :
         /\ k <= 4 => lighting[k] = LIGHTING_PRESETS[k]
         /\ k > 4 => lighting[k] = lighting[k - 4]

\* C25, the case: a list of 3 different presets has been gone through more
\* than twice and the lighting more than once.
C25_Witness ==
    /\ Len(array) = 3
    /\ Cardinality(Range(array)) = 3
    /\ Len(picks) > 6
    /\ Len(lighting) > 4

(***************************************************************************)
(* The loop of the batch on one response of any shape.                     *)
(***************************************************************************)
MaxParts == 3

Parts == {TextPart, ImagePart, BothPart, EmptyPart}

\* the content of a well-formed response: up to MaxParts parts
PartLists == UNION {[1 .. n -> Parts] : n \in 0 .. MaxParts}

InitParts ==
    \E ps \in PartLists :
        /\ num_variations = 1
        /\ current_room_paths = <<>>
        /\ inspiration_paths = <<>>
        /\ unloadable = {}
        /\ current_room_images = <<>>
        /\ inspiration_images = <<>>
        /\ pc = "gather"
        /\ task = [i \in Indices(1) |-> "done"]
        /\ requests = [i \in Indices(1) |-> <<>>]
        /\ outcome = [i \in Indices(1) |-> Response(ps, Usage(1000, 500))]
        /\ completion = <<0>>
        /\ results = <<>>
        /\ pos = 1
        /\ generated_images = <<>>
        /\ total_input_tokens = 0
        /\ total_output_tokens = 0
        /\ writing = {}
        /\ files = <<>>
        /\ out = <<>>
        /\ returned = <<>>
        /\ output_dir = OutputDir
        /\ error = "none"
        /\ dirs = {"."}
        /\ run = 1
        /\ caller = "script"
        /\ env_key = "key"
        /\ missing = {}
        /\ args_output_dir = ""
        /\ prog_pc = "running"
        /\ grid_file = <<>>
        /\ exit_status = -1
        /\ AsideIdle

NextParts ==
    \/ GatherReturn
    \/ ProcessResult
    \/ SaveImage
    \/ SaveFails
    \/ Summarize

SpecParts == InitParts /\ [][NextParts]_vars

ImagePositions(parts) == {x \in DOMAIN parts : parts[x].inline}

\* C26: at most one image is extracted per response: the image taken is the
\* first image-bearing part in part order, later image parts are ignored,
\* and the index contributes exactly one returned image and one written
\* file.
C26_OneImagePerResponse ==
    /\ \A x \in DOMAIN generated_images :
         LET g == generated_images[x]
         IN  /\ g.part \in ImagePositions(outcome[g.idx].parts)
             /\ \A y \in ImagePositions(outcome[g.idx].parts) : g.part <= y
    /\ \A i \in DOMAIN outcome :
         /\ Cardinality({x \in DOMAIN generated_images : generated_images[x].idx = i}) <= 1
         /\ Cardinality({x \in DOMAIN files : files[x].idx = i}) <= 1
         /\ (pc = "done" /\ HoldsImage(outcome[i])) =>
              /\ Cardinality({x \in DOMAIN returned : returned[x].idx = i}) = 1
              /\ Cardinality({x \in DOMAIN files : files[x].idx = i}) = 1

\* C26, the case: a response with a text part followed by two image parts
\* has been processed and the batch has returned.
C26_Witness ==
    /\ pc = "done"
    /\ Len(outcome[0].parts) = 3
    /\ ~outcome[0].parts[1].inline
    /\ ImagePositions(outcome[0].parts) = {2, 3}
    /\ Len(returned) = 1
    /\ Len(files) = 1

(***************************************************************************)
(* The usage summary.                                                      *)
(***************************************************************************)
\* C27: the per-variation cost of the usage summary never divides by zero:
\* whenever tokens have been accumulated (the condition under which the
\* summary is computed) at least one image has been generated, and the
\* summary never raises a division by zero.
C27_CostPerVariationIsDefined ==
    /\ error # "zero_division"
    /\ total_input_tokens + total_output_tokens > 0
         => Len(generated_images) >= 1

\* C27, the case: the summary has been printed for a batch in which a
\* response with usage counts held no image.
C27_Witness ==
    /\ pc = "done"
    /\ \E x \in DOMAIN out : out[x].t = "summary"
    /\ \E i \in DOMAIN outcome :
         /\ outcome[i].kind = "parts"
         /\ ~HoldsImage(outcome[i])
         /\ outcome[i].usage.prompt_token_count > 0

(***************************************************************************)
(* save_variations_grid.  Only the number of images matters to the layout; *)
(* every image is pasted at the multiples of the size of the first one.    *)
(***************************************************************************)
MaxGridImages == 13

GridColumns == 4

\* cols = min(4, len(images))
grid_cols(n) == Min(GridColumns, n)

\* rows that leave the last, incomplete row out
grid_rows_floor(n) == n \div grid_cols(n)

\* rows = (len(images) + cols - 1) // cols
grid_rows(n) == (n + grid_cols(n) - 1) \div grid_cols(n)

\* row = i // cols, col = i % cols
grid_cell(i, n) == [row |-> i \div grid_cols(n), col |-> i % grid_cols(n)]

\* what save_variations_grid leaves alone
besideGrid == <<locals, current_room_paths, inspiration_paths, pc, error,
                dirs, output_dir, run, caller, env_key, missing,
                args_output_dir, prog_pc, exit_status, variation_index,
                prompt, prompt_before, array, picks, lighting, grid_images,
                reply, single_result, batch_result>>

InitGrid ==
    /\ BatchIdle
    /\ grid_images \in 0 .. MaxGridImages
    /\ pasted = <<>>
    /\ variation_index = 0
    /\ prompt = <<>>
    /\ prompt_before = <<>>
    /\ array = <<>>
    /\ picks = <<>>
    /\ lighting = <<>>
    /\ reply = <<>>
    /\ single_result = <<"none", 0>>
    /\ batch_result = <<"none", 0>>

\* if not images: print("No images to save"); return
NoImagesToSave ==
    /\ grid_images = 0
    /\ out = <<>>
    /\ out' = Append(out, Line("no_images", 0, 0, 0, <<>>))
    /\ UNCHANGED <<besideGrid, pasted, grid_file>>

\* one iteration of "for i, img in enumerate(images)": grid_image.paste
PasteImage ==
    /\ Len(pasted) < grid_images
    /\ pasted' = Append(pasted, grid_cell(Len(pasted), grid_images))
    /\ UNCHANGED <<besideGrid, out, grid_file>>

\* grid_image.save(output_path) and the print
SaveGrid ==
    /\ grid_images > 0
    /\ Len(pasted) = grid_images
    /\ grid_file = <<>>
    /\ grid_file' = <<"all_variations.png">>
    /\ out' = Append(out, Line("grid", grid_images, grid_rows(grid_images),
                               grid_cols(grid_images), <<"all_variations.png">>))
    /\ UNCHANGED <<besideGrid, pasted>>

NextGrid ==
    \/ NoImagesToSave
    \/ PasteImage
    \/ SaveGrid

SpecGrid == InitGrid /\ [][NextGrid]_vars

\* C28: n >= 1 images are placed in a grid of cols = min(4, n) columns and
\* rows = ceil(n / cols) rows: image k goes to cell (k div cols, k mod
\* cols), no two images share a cell, every cell used lies inside the rows
\* x cols grid, and for n = 0 no grid file is written.
C28_GridPlacement ==
    LET n == grid_images
        cols == IF n < 4 THEN n ELSE 4
    IN  /\ n = 0 => grid_file = <<>> /\ pasted = <<>>
        /\ grid_file # <<>> => Len(pasted) = n
        /\ n >= 1 =>
             /\ grid_cols(n) = cols
             /\ grid_rows(n) * cols >= n
             /\ (grid_rows(n) - 1) * cols < n
             /\ \A k \in DOMAIN pasted :
                  /\ pasted[k].row * cols + pasted[k].col = k - 1
                  /\ pasted[k].col >= 0 /\ pasted[k].col < cols
                  /\ pasted[k].row >= 0 /\ pasted[k].row < grid_rows(n)
             /\ \A k, l \in DOMAIN pasted : pasted[k] = pasted[l] => k = l

\* C28, the case: the grid of 5 images (a full row and one image on the
\* second row) has been written.
C28_Witness ==
    /\ grid_images = 5
    /\ Len(pasted) = 5
    /\ grid_file # <<>>

(***************************************************************************)
(* The single-variation path and the batch path on the same response.      *)
(* A result is <<"image", p>> (the image of part p), <<"failed", 0>> (a    *)
(* failure reported, nothing raised) or <<"raised", 0>> (an exception left *)
(* the function).                                                          *)
(***************************************************************************)
Replies ==
    {Malformed(Usage(1000, 500))}
    \cup {Response(ps, Usage(1000, 500)) : ps \in PartLists}

RECURSIVE FirstInlineWithoutText(_, _)
\* generate_design_variation: "if part.text is not None: print ...
\* elif part.inline_data is not None: return image"
FirstInlineWithoutText(parts, p) ==
    IF p > Len(parts) THEN 0
    ELSE IF parts[p].text THEN FirstInlineWithoutText(parts, p + 1)
    ELSE IF parts[p].inline THEN p
    ELSE FirstInlineWithoutText(parts, p + 1)

\* generate_design_variation after the remote call: everything is inside
\* "try: ... except Exception: print; return None"
SingleClassify(r) ==
    IF r.kind = "malformed" THEN <<"failed", 0>>
    ELSE IF FirstInlineWithoutText(r.parts, 1) > 0
         THEN <<"image", FirstInlineWithoutText(r.parts, 1)>>
    ELSE <<"failed", 0>>

\* the loop of generate_design_variations on (i, response), up to the
\* choice between "if image:" and "else: print(Failed ...)"
BatchClassify(r) ==
    IF r.kind = "malformed" THEN <<"raised", 0>>
    ELSE IF ExtractImage(r.parts) > 0 THEN <<"image", ExtractImage(r.parts)>>
    ELSE <<"failed", 0>>

InitPaths ==
    /\ BatchIdle
    /\ reply \in Replies
    /\ single_result = <<"none", 0>>
    /\ batch_result = <<"none", 0>>
    /\ variation_index = 0
    /\ prompt = <<>>
    /\ prompt_before = <<>>
    /\ array = <<>>
    /\ picks = <<>>
    /\ lighting = <<>>
    /\ grid_images = 0
    /\ pasted = <<>>

SinglePath ==
    /\ single_result = <<"none", 0>>
    /\ single_result' = SingleClassify(reply)
    /\ UNCHANGED <<whole, variation_index, prompt, prompt_before, array,
                   picks, lighting, grid_images, pasted, reply, batch_result>>

BatchPath ==
    /\ batch_result = <<"none", 0>>
    /\ batch_result' = BatchClassify(reply)
    /\ UNCHANGED <<whole, variation_index, prompt, prompt_before, array,
                   picks, lighting, grid_images, pasted, reply, single_result>>

NextPaths ==
    \/ SinglePath
    \/ BatchPath

SpecPaths == InitPaths /\ [][NextPaths]_vars

\* C29: the single-variation path and the batch path classify the same
\* response the same way: for every response (image-bearing, text-only,
\* with a part carrying both text and inline data, or malformed) both
\* yield the same image or both report a failure, and neither raises.
C29_PathsAgree ==
    (single_result[1] # "none" /\ batch_result[1] # "none") =>
        /\ single_result[1] # "raised"
        /\ batch_result[1] # "raised"
        /\ single_result = batch_result

====
